---- MODULE Spec2Model ----
(***************************************************************************)
(* Price-fetch pallet (pallets/price-fetch/src/lib.rs): the three storage  *)
(* maps, the three dispatchable calls, and the offchain worker that feeds  *)
(* signed transactions into the transaction pool.                          *)
(*                                                                         *)
(* One step of the model is one of: an extrinsic executed against storage  *)
(* (sent directly by an account, or taken from the pool), one run of a     *)
(* node's offchain worker at the current block, or the import of a later   *)
(* block.                                                                  *)
(***************************************************************************)
EXTENDS Integers, Sequences, FiniteSets, TLC

VARIABLES Fetchers, FetchedPrices, AvgPrices, block_number, pool, nTx, lastTx, lastRun

vars == <<Fetchers, FetchedPrices, AvgPrices, block_number, pool, nTx, lastTx, lastRun>>

storage == <<Fetchers, FetchedPrices, AvgPrices>>

----------------------------------------------------------------------------
(* Bounds of the model *)

\* extrinsics executed in one behaviour
MaxTx == 3

\* transactions waiting in the pool at one time
MaxPool == 2

\* The mantissa of Price (FixedU128) is a u128 and its unit is 10^18.  The
\* model keeps the same arithmetic on a narrower mantissa: values are taken
\* modulo Capacity, and One is the mantissa of Price::from(1).
Capacity == 16

One == 4

----------------------------------------------------------------------------
(* Configuration and inputs *)

SYM == "ETH"

SYMBOLS == {<<"ETH", "https://api.diadata.org/v1/quotation/ETH">>}

FIXED_WINDOW_LENGTH == 600

GracePeriod == 5

\* milliseconds per block ("1 block/6s")
BlockTime == 6000

\* symbols that calls are made with; only SYM is in SYMBOLS
Symbols == {"ETH", "BTC"}

\* signing accounts
Accounts == {"a", "b"}

\* nodes running the offchain worker, and the local keys each holds
Nodes == {"a", "b", "c"}

LocalKeys(node) == IF node \in Accounts THEN {node} ELSE {}

\* the block heights at which the model looks at the chain; the blocks in
\* between are blocks without extrinsics of this pallet
Heights == {1, GracePeriod, GracePeriod + FIXED_WINDOW_LENGTH}

\* price records calls are made with (price is the mantissa)
PriceRecords ==
    { [price |-> 1, time |-> "t1", symbol |-> "ETH"],
      [price |-> Capacity - 1, time |-> "t2", symbol |-> "ETH"],
      [price |-> 2, time |-> "t1", symbol |-> "BTC"] }

\* decimal prices the price source answers with, as <<numerator, denominator>>;
\* the last one times the unit of Price does not fit the mantissa
SourceFloats == {<<1, 4>>, <<5, 1>>}

\* what a request to the price source can come to: the request is sent or not,
\* the wait ends with a response or at the deadline, the response has a status
\* code, a body that is UTF-8 or not, which is the JSON of a record or is not
Answer(float) ==
    [sent |-> TRUE, wait |-> "response", code |-> 200, utf8 |-> TRUE,
     body |-> [json |-> TRUE, Price |-> float,
               Time |-> IF float[2] = 1 THEN "t2" ELSE "t1", Symbol |-> "ETH"]]

Responses ==
    {Answer(f) : f \in SourceFloats}
    \cup { [Answer(<<1, 4>>) EXCEPT !.sent = FALSE],
           [Answer(<<1, 4>>) EXCEPT !.wait = "deadline"],
           [Answer(<<1, 4>>) EXCEPT !.code = 404],
           [Answer(<<1, 4>>) EXCEPT !.utf8 = FALSE],
           [Answer(<<1, 4>>) EXCEPT !.body.json = FALSE] }

\* average prices an account may put in a hand-made submit_new_avg_price
AvgInputs == {3}

----------------------------------------------------------------------------
(* Storage maps: a map is a function whose domain is the set of keys present *)

EmptyMap == [k \in {} |-> 0]

contains_key(map, k) == k \in DOMAIN map

insert(map, k, v) == [x \in (DOMAIN map) \cup {k} |-> IF x = k THEN v ELSE map[x]]

take(map, k) == [x \in (DOMAIN map) \ {k} |-> map[x]]

\* get on a map of Vec: the default (empty Vec) when the key is absent
get_vec(map, k) == IF k \in DOMAIN map THEN map[k] ELSE <<>>

now == block_number * BlockTime

NoEvent == <<>>

\* Fetcher::default(), what take gives for an absent key
DefaultFetcher == [symbol |-> "", end_fetching_at |-> 0, url |-> ""]

NoTx == [call |-> "none", who |-> "none", symbol |-> "none", price |-> 0,
         time |-> "none", result |-> "none", event |-> NoEvent, old_fetcher |-> DefaultFetcher]

\* nTx counts the extrinsics executed; lastTx is the extrinsic executed by the
\* step that led here and how it ended (NoTx after any other step)
Executed(call, who, symbol, price, time, result, event, old_fetcher) ==
    lastTx' = [call |-> call, who |-> who, symbol |-> symbol, price |-> price, time |-> time,
               result |-> result, event |-> event, old_fetcher |-> old_fetcher]

----------------------------------------------------------------------------
(* Dispatchable calls.  origin is a signing account or "unsigned". *)

ensure_signed(origin) == origin \in Accounts

Url(symbol) == (CHOOSE p \in SYMBOLS : p[1] = symbol)[2]

Fail(call, origin, symbol, price, time, error) ==
    /\ UNCHANGED storage
    /\ Executed(call, origin, symbol, price, time, error, NoEvent, DefaultFetcher)

\* start_fetcher with the FetcherAlreadyExist check left out
start_fetcher_without_check(origin) ==
    IF ~ensure_signed(origin)
    THEN Fail("start_fetcher", origin, SYM, 0, "none", "BadOrigin")
    ELSE
        LET end_at == block_number + FIXED_WINDOW_LENGTH
            new_fetcher == [symbol |-> SYM, end_fetching_at |-> end_at, url |-> Url(SYM)]
        IN  /\ Fetchers' = insert(Fetchers, SYM, new_fetcher)
            /\ UNCHANGED <<FetchedPrices, AvgPrices>>
            /\ Executed("start_fetcher", origin, SYM, 0, "none", "Ok",
                        <<"NewFetcher", origin, SYM, now>>, DefaultFetcher)

\* start_fetcher with the length of the window left out of end_at
start_fetcher_ends_now(origin) ==
    IF ~ensure_signed(origin)
    THEN Fail("start_fetcher", origin, SYM, 0, "none", "BadOrigin")
    ELSE IF contains_key(Fetchers, SYM)
    THEN Fail("start_fetcher", origin, SYM, 0, "none", "FetcherAlreadyExist")
    ELSE
        LET new_fetcher == [symbol |-> SYM, end_fetching_at |-> block_number, url |-> Url(SYM)]
        IN  /\ Fetchers' = insert(Fetchers, SYM, new_fetcher)
            /\ UNCHANGED <<FetchedPrices, AvgPrices>>
            /\ Executed("start_fetcher", origin, SYM, 0, "none", "Ok",
                        <<"NewFetcher", origin, SYM, now>>, DefaultFetcher)

start_fetcher(origin) ==
    IF ~ensure_signed(origin)
    THEN Fail("start_fetcher", origin, SYM, 0, "none", "BadOrigin")
    ELSE IF contains_key(Fetchers, SYM)
    THEN Fail("start_fetcher", origin, SYM, 0, "none", "FetcherAlreadyExist")
    ELSE IF ~(\E p \in SYMBOLS : p[1] = SYM)
    THEN Fail("start_fetcher", origin, SYM, 0, "none", "SymbolNotFound")
    ELSE
        LET end_at == block_number + FIXED_WINDOW_LENGTH
            new_fetcher == [symbol |-> SYM, end_fetching_at |-> end_at, url |-> Url(SYM)]
        IN  /\ Fetchers' = insert(Fetchers, SYM, new_fetcher)
            /\ UNCHANGED <<FetchedPrices, AvgPrices>>
            /\ Executed("start_fetcher", origin, SYM, 0, "none", "Ok",
                        <<"NewFetcher", origin, SYM, now>>, DefaultFetcher)

\* add_new_price_to_list putting the new price first
add_new_price_to_list_front(price) ==
    insert(FetchedPrices, price.symbol, <<price>> \o get_vec(FetchedPrices, price.symbol))

\* add_new_price_to_list storing the new price in place of the list
add_new_price_to_list_overwrite(price) ==
    insert(FetchedPrices, price.symbol, <<price>>)

add_new_price_to_list(price) ==
    insert(FetchedPrices, price.symbol, Append(get_vec(FetchedPrices, price.symbol), price))

\* submit_new_price with the FetcherNotFound check left out
submit_new_price_without_check(origin, price_record) ==
    LET new_price == [price |-> price_record.price, time |-> price_record.time,
                      symbol |-> price_record.symbol, author |-> origin]
    IN  /\ FetchedPrices' = insert(FetchedPrices, new_price.symbol,
                                   Append(get_vec(FetchedPrices, new_price.symbol), new_price))
        /\ UNCHANGED <<Fetchers, AvgPrices>>
        /\ Executed("submit_new_price", origin, price_record.symbol, price_record.price,
                    price_record.time, "Ok",
                    <<"NewPricePoint", origin, price_record.symbol, now, price_record.price>>,
                    DefaultFetcher)

\* submit_new_price looking for the fetcher of SYM, as start_fetcher does,
\* whatever the symbol of the record
submit_new_price_checks_sym(origin, price_record) ==
    IF ~ensure_signed(origin)
    THEN Fail("submit_new_price", origin, price_record.symbol, price_record.price,
              price_record.time, "BadOrigin")
    ELSE IF ~contains_key(Fetchers, SYM)
    THEN Fail("submit_new_price", origin, price_record.symbol, price_record.price,
              price_record.time, "FetcherNotFound")
    ELSE
        LET new_price == [price |-> price_record.price, time |-> price_record.time,
                          symbol |-> price_record.symbol, author |-> origin]
        IN  /\ FetchedPrices' = add_new_price_to_list(new_price)
            /\ UNCHANGED <<Fetchers, AvgPrices>>
            /\ Executed("submit_new_price", origin, price_record.symbol, price_record.price,
                        price_record.time, "Ok",
                        <<"NewPricePoint", origin, price_record.symbol, now, price_record.price>>,
                        DefaultFetcher)

submit_new_price(origin, price_record) ==
    IF ~ensure_signed(origin)
    THEN Fail("submit_new_price", origin, price_record.symbol, price_record.price,
              price_record.time, "BadOrigin")
    ELSE IF ~contains_key(Fetchers, price_record.symbol)
    THEN Fail("submit_new_price", origin, price_record.symbol, price_record.price,
              price_record.time, "FetcherNotFound")
    ELSE
        LET new_price == [price |-> price_record.price, time |-> price_record.time,
                          symbol |-> price_record.symbol, author |-> origin]
        IN  /\ FetchedPrices' = add_new_price_to_list(new_price)
            /\ UNCHANGED <<Fetchers, AvgPrices>>
            /\ Executed("submit_new_price", origin, price_record.symbol, price_record.price,
                        price_record.time, "Ok",
                        <<"NewPricePoint", origin, price_record.symbol, now, price_record.price>>,
                        DefaultFetcher)

\* submit_new_avg_price leaving the fetched prices in storage
submit_new_avg_price_keeps_prices(origin, symbol, avg_price) ==
    /\ AvgPrices' = insert(AvgPrices, symbol, <<now, avg_price, origin>>)
    /\ Fetchers' = take(Fetchers, symbol)
    /\ UNCHANGED FetchedPrices
    /\ Executed("submit_new_avg_price", origin, symbol, avg_price, "none", "Ok",
                <<"NewAvgPrice", origin, symbol, now, avg_price>>,
                IF contains_key(Fetchers, symbol) THEN Fetchers[symbol] ELSE DefaultFetcher)

submit_new_avg_price(origin, symbol, avg_price) ==
    IF ~ensure_signed(origin)
    THEN Fail("submit_new_avg_price", origin, symbol, avg_price, "none", "BadOrigin")
    ELSE
        /\ AvgPrices' = insert(AvgPrices, symbol, <<now, avg_price, origin>>)
        /\ Fetchers' = take(Fetchers, symbol)
        /\ FetchedPrices' = take(FetchedPrices, symbol)
        /\ Executed("submit_new_avg_price", origin, symbol, avg_price, "none", "Ok",
                    <<"NewAvgPrice", origin, symbol, now, avg_price>>,
                    IF contains_key(Fetchers, symbol) THEN Fetchers[symbol] ELSE DefaultFetcher)

\* a call, as a transaction: the record that waits in the pool
Tx(call, who, symbol, price, time) ==
    [call |-> call, who |-> who, symbol |-> symbol, price |-> price, time |-> time]

Dispatch(tx) ==
    CASE tx.call = "start_fetcher" -> start_fetcher(tx.who)
      [] tx.call = "submit_new_price" ->
            submit_new_price(tx.who, [price |-> tx.price, time |-> tx.time, symbol |-> tx.symbol])
      [] tx.call = "submit_new_avg_price" -> submit_new_avg_price(tx.who, tx.symbol, tx.price)

----------------------------------------------------------------------------
(* Price arithmetic (FixedU128 on the narrowed mantissa) *)

\* Price::from(n)
PriceFrom(n) == n * One

\* a + b on the mantissa: the wrapped result, and whether it overflowed
PriceAdd(a, b) == [value |-> (a + b) % Capacity, overflow |-> a + b >= Capacity]

\* the loop of calc_and_submit_avg_price over price_points[i..]
RECURSIVE SumAndCount(_, _, _)
SumAndCount(price_points, i, acc) ==
    IF i > Len(price_points) THEN acc
    ELSE LET s == PriceAdd(acc.sum, price_points[i].price)
             c == PriceAdd(acc.samples_count, PriceFrom(1))
         IN  SumAndCount(price_points, i + 1,
                         [sum |-> s.value, samples_count |-> c.value,
                          overflow |-> acc.overflow \/ s.overflow \/ c.overflow])

\* a / b of FixedU128: floor(a * One / b), a panic when b is zero or when
\* the quotient does not fit the mantissa
PriceDiv(a, b) ==
    IF b = 0 THEN [panic |-> "divide by zero", value |-> 0]
    ELSE IF (a * One) \div b >= Capacity THEN [panic |-> "divide with overflow", value |-> 0]
    ELSE [panic |-> "no", value |-> (a * One) \div b]

----------------------------------------------------------------------------
(* The offchain worker.  Each helper gives what one call does: the          *)
(* transactions it hands to the pool and how the call ended.                *)

can_sign(node) == LocalKeys(node) # {}

de_string_to_bytes(str) == str

\* (fp * 10^18) as u128: the product truncated toward zero, and the cast of a
\* value above the mantissa saturates: it gives the largest mantissa
de_float_to_price(fp) ==
    LET int == (fp[1] * One) \div fp[2]
    IN  IF int >= Capacity THEN Capacity - 1 ELSE int

FetchFailed == [price |-> 0, time |-> "none", symbol |-> "failed"]

\* Some(record), or None for a body that is not the JSON of a record
parse_dia_res(body) ==
    IF ~body.json THEN [some |-> FALSE, record |-> FetchFailed]
    ELSE [some |-> TRUE,
          record |-> [price |-> de_float_to_price(body.Price),
                      time |-> de_string_to_bytes(body.Time),
                      symbol |-> de_string_to_bytes(body.Symbol)]]

\* Ok(record) or Err(http::Error)
\* fetch_price reading the body whatever the status code
fetch_price_any_status(url, response) ==
    IF ~response.sent THEN [error |-> "IoError", record |-> FetchFailed]
    ELSE IF response.wait = "deadline" THEN [error |-> "DeadlineReached", record |-> FetchFailed]
    ELSE IF ~response.utf8 THEN [error |-> "Unknown", record |-> FetchFailed]
    ELSE IF ~parse_dia_res(response.body).some THEN [error |-> "Unknown", record |-> FetchFailed]
    ELSE [error |-> "Ok", record |-> parse_dia_res(response.body).record]

fetch_price(url, response) ==
    IF ~response.sent THEN [error |-> "IoError", record |-> FetchFailed]
    ELSE IF response.wait = "deadline" THEN [error |-> "DeadlineReached", record |-> FetchFailed]
    ELSE IF response.code # 200 THEN [error |-> "Unknown", record |-> FetchFailed]
    ELSE IF ~response.utf8 THEN [error |-> "Unknown", record |-> FetchFailed]
    ELSE IF ~parse_dia_res(response.body).some THEN [error |-> "Unknown", record |-> FetchFailed]
    ELSE [error |-> "Ok", record |-> parse_dia_res(response.body).record]

\* overflow_checks: whether the build traps on integer overflow (else it wraps)
\* sent: the local accounts whose transaction the pool accepted
calc_and_submit_avg_price(node, fetcher, overflow_checks, sent) ==
    IF ~can_sign(node)
    THEN [txs |-> {}, ended |-> "Err: no local accounts", fetch |-> "not called"]
    ELSE
        LET price_points == get_vec(FetchedPrices, fetcher.symbol)
            acc == SumAndCount(price_points, 1,
                               [sum |-> PriceFrom(0), samples_count |-> PriceFrom(0),
                                overflow |-> FALSE])
            avg_price == PriceDiv(acc.sum, acc.samples_count)
        IN  IF acc.overflow /\ overflow_checks
            THEN [txs |-> {}, ended |-> "panic: add with overflow", fetch |-> "not called"]
            ELSE IF avg_price.panic # "no"
            THEN [txs |-> {}, ended |-> "panic: " \o avg_price.panic, fetch |-> "not called"]
            ELSE [txs |-> {Tx("submit_new_avg_price", account, fetcher.symbol,
                               avg_price.value, "none") : account \in sent},
                  ended |-> "Ok: avg", fetch |-> "not called"]

\* fetch_price_and_submit asking the price source before it looks for a key
fetch_price_and_submit_fetch_first(node, fetcher, response, sent) ==
    LET fetched_price == fetch_price(fetcher.url, response)
    IN  IF fetched_price.error # "Ok"
        THEN [txs |-> {}, ended |-> "Err: failed to fetch data",
              fetch |-> fetched_price.error]
        ELSE IF ~can_sign(node)
        THEN [txs |-> {}, ended |-> "Err: no local accounts", fetch |-> "Ok"]
        ELSE [txs |-> {Tx("submit_new_price", account, fetched_price.record.symbol,
                          fetched_price.record.price, fetched_price.record.time) :
                            account \in sent},
              ended |-> "Ok: price", fetch |-> "Ok"]

\* response: what the request to fetcher.url comes to
fetch_price_and_submit(node, fetcher, response, sent) ==
    IF ~can_sign(node)
    THEN [txs |-> {}, ended |-> "Err: no local accounts", fetch |-> "not called"]
    ELSE
        LET fetched_price == fetch_price(fetcher.url, response)
        IN  IF fetched_price.error # "Ok"
            THEN [txs |-> {}, ended |-> "Err: failed to fetch data",
                  fetch |-> fetched_price.error]
            ELSE [txs |-> {Tx("submit_new_price", account, fetched_price.record.symbol,
                              fetched_price.record.price, fetched_price.record.time) :
                                account \in sent},
                  ended |-> "Ok: price", fetch |-> "Ok"]

\* the body of the for_each closure for one fetcher
\* the closure asking whether the block is a multiple of the grace period
\* before asking whether the fetcher is due
ForFetcher_fetch_first(node, f, overflow_checks, response, sent) ==
    IF block_number % GracePeriod = 0
    THEN fetch_price_and_submit(node, f, response, sent)
    ELSE IF f.end_fetching_at <= block_number
    THEN calc_and_submit_avg_price(node, f, overflow_checks, sent)
    ELSE [txs |-> {}, ended |-> "nothing", fetch |-> "not called"]

ForFetcher(node, f, overflow_checks, response, sent) ==
    IF f.end_fetching_at <= block_number
    THEN calc_and_submit_avg_price(node, f, overflow_checks, sent)
    ELSE IF block_number % GracePeriod = 0
    THEN fetch_price_and_submit(node, f, response, sent)
    ELSE [txs |-> {}, ended |-> "nothing", fetch |-> "not called"]

\* the ways a call for a fetcher panics; a panic ends the run of the worker
PanicEnds == {"panic: add with overflow", "panic: divide by zero",
              "panic: divide with overflow"}

\* Fetchers::iter() goes through the keys in their order in storage
IterOrder == <<"BTC", "ETH">>

Position(symbol) == CHOOSE i \in 1..Len(IterOrder) : IterOrder[i] = symbol

Due(f) == f.end_fetching_at <= block_number

\* the bound on the observations kept for one symbol
MaxObs == 2

\* room left for one more price of the symbol, counting those waiting in the pool
Room(symbol) ==
    Len(get_vec(FetchedPrices, symbol))
      + Cardinality({t \in pool : t.call = "submit_new_price" /\ t.symbol = symbol}) < MaxObs

\* a response that stands for all when the run makes no request
NoResponse == [Answer(<<1, 4>>) EXCEPT !.sent = FALSE]

\* one run of the worker of node at the current block, given
\*   overflow_checks: whether the build traps on integer overflow (else it wraps)
\*   response: what the request to the price source comes to
\*   sent: the local accounts whose transaction the pool accepts
\* A fetcher that comes after one whose call panicked is not reached.
offchain_run(node, overflow_checks, response, sent) ==
    LET call == [s \in DOMAIN Fetchers |->
                    ForFetcher(node, Fetchers[s], overflow_checks, response, sent)]
        reached(s) == \A e \in DOMAIN Fetchers :
                        Position(e) < Position(s) => call[e].ended \notin PanicEnds
        out == [s \in DOMAIN Fetchers |->
                    IF reached(s) THEN call[s]
                    ELSE [txs |-> {}, ended |-> "not reached", fetch |-> "not called"]]
        txs == UNION {out[s].txs : s \in DOMAIN Fetchers}
    IN  /\ Cardinality(pool \cup txs) <= MaxPool
        /\ \A tx \in txs \ pool : tx.call = "submit_new_price" => Room(tx.symbol)
        /\ pool' = pool \cup txs
        /\ lastRun' = [node |-> node,
                       ended |-> [s \in DOMAIN Fetchers |-> out[s].ended],
                       fetch |-> [s \in DOMAIN Fetchers |-> out[s].fetch],
                       response |-> IF \E s \in DOMAIN Fetchers : out[s].fetch # "not called"
                                    THEN response ELSE NoResponse]
        /\ lastTx' = NoTx
        /\ UNCHANGED <<storage, block_number, nTx>>

\* the outcomes of a run that can differ: the overflow behaviour of the build
\* matters to a run that aggregates, the answer of the price source to a run
\* that fetches, the pool's acceptance to a run of a node that can sign
offchain_worker(node) ==
    LET aggregates == can_sign(node) /\ \E s \in DOMAIN Fetchers : Due(Fetchers[s])
        fetches == /\ can_sign(node)
                   /\ block_number % GracePeriod = 0
                   /\ \E s \in DOMAIN Fetchers : ~Due(Fetchers[s])
    IN
    \E overflow_checks \in (IF aggregates THEN BOOLEAN ELSE {FALSE}),
       response \in (IF fetches THEN Responses ELSE {NoResponse}),
       sent \in (IF aggregates \/ fetches THEN SUBSET LocalKeys(node) ELSE {{}}) :
        offchain_run(node, overflow_checks, response, sent)

----------------------------------------------------------------------------
(* The chain *)

\* lastRun is the worker run made by the step that led here: the node and,
\* for each fetcher in storage, how the call for it ended and how the request
\* to the price source ended, if one was made, and what the request came to
NoRun == [node |-> "none", ended |-> EmptyMap, fetch |-> EmptyMap, response |-> NoResponse]

Admissible(tx) == nTx < MaxTx

\* an account sends an extrinsic of its own making, executed in this block
ExternalTxs ==
    {Tx("start_fetcher", o, SYM, 0, "none") : o \in Accounts \cup {"unsigned"}}
    \cup {Tx("submit_new_price", o, r.symbol, r.price, r.time) : o \in Accounts, r \in PriceRecords}
    \cup {Tx("submit_new_avg_price", o, SYM, p, "none") : o \in Accounts, p \in AvgInputs}

ExecuteExternal ==
    \E tx \in ExternalTxs :
        /\ Admissible(tx)
        /\ tx.call = "submit_new_price" => Room(tx.symbol)
        /\ Dispatch(tx)
        /\ nTx' = nTx + 1
        /\ lastRun' = NoRun
        /\ UNCHANGED <<block_number, pool>>

\* a transaction of the pool is included in the current block
ExecutePooled ==
    \E tx \in pool :
        /\ Admissible(tx)
        /\ Dispatch(tx)
        /\ pool' = pool \ {tx}
        /\ nTx' = nTx + 1
        /\ lastRun' = NoRun
        /\ UNCHANGED block_number

RunWorker == \E node \in Nodes : offchain_worker(node)

ImportBlock ==
    \E h \in Heights :
        /\ h > block_number
        /\ block_number' = h
        /\ lastTx' = NoTx
        /\ lastRun' = NoRun
        /\ UNCHANGED <<storage, pool, nTx>>

Init ==
    /\ Fetchers = EmptyMap
    /\ FetchedPrices = EmptyMap
    /\ AvgPrices = EmptyMap
    /\ block_number = 1
    /\ pool = {}
    /\ nTx = 0
    /\ lastTx = NoTx
    /\ lastRun = NoRun

Next == ExecuteExternal \/ ExecutePooled \/ RunWorker \/ ImportBlock

Spec == Init /\ [][Next]_vars

----------------------------------------------------------------------------
(* The chain with a reporter that keeps going.  Transactions of the pool    *)
(* are included whatever the number of extrinsics executed so far (nTx      *)
(* stops counting at MaxTx, which bounds the extrinsics accounts send of    *)
(* their own).  Blocks keep being imported, the pool's transactions keep    *)
(* being included, and node "a", which holds a key, keeps running its       *)
(* worker with the pool accepting what it sends; the other nodes and the    *)
(* accounts may stop at any time.                                           *)

IncludePooled ==
    \E tx \in pool :
        /\ Dispatch(tx)
        /\ pool' = pool \ {tx}
        /\ nTx' = IF nTx < MaxTx THEN nTx + 1 ELSE nTx
        /\ lastRun' = NoRun
        /\ UNCHANGED block_number

ReporterRuns ==
    \E overflow_checks \in BOOLEAN, response \in Responses :
        offchain_run("a", overflow_checks, response, LocalKeys("a"))

NextLive == ExecuteExternal \/ IncludePooled \/ RunWorker \/ ImportBlock

LiveSpec ==
    /\ Init
    /\ [][NextLive]_vars
    /\ WF_vars(ImportBlock)
    /\ WF_vars(IncludePooled)
    /\ WF_vars(ReporterRuns)

----------------------------------------------------------------------------
(* Properties *)

\* the step executes an extrinsic; lastTx' tells which and how it ended
TxStep == nTx' = nTx + 1

\* the step executes the call, sent by a signing account
Runs(call) == TxStep /\ lastTx'.call = call /\ lastTx'.who \in Accounts

\* the step is a run of the offchain worker; lastRun' tells whose and how it ended
WorkerStep == lastRun'.node # "none"

IsPrefix(a, b) == Len(a) <= Len(b) /\ SubSeq(b, 1, Len(a)) = a

\* the entry submit_new_price stores for the extrinsic tx
Entry(tx) == [price |-> tx.price, time |-> tx.time, symbol |-> tx.symbol, author |-> tx.who]

RECURSIVE SumOfPrices(_)
SumOfPrices(price_points) ==
    IF price_points = <<>> THEN 0
    ELSE Head(price_points).price + SumOfPrices(Tail(price_points))

\* floor(sum(pi)/n) on the mantissas
FloorMean(price_points) == SumOfPrices(price_points) \div Len(price_points)

\* C1: a window is stored under its own symbol, one per symbol; start_fetcher
\* executed while the window of SYM exists fails with FetcherAlreadyExist and
\* leaves Fetchers, FetchedPrices and AvgPrices as they were; executed while
\* none exists it opens the window; so of two start_fetcher executed one
\* after the other, the second fails when the first succeeded.
C1_ExclusiveOpen ==
    [][ /\ \A s \in DOMAIN Fetchers' : Fetchers'[s].symbol = s
        /\ Runs("start_fetcher") =>
            /\ contains_key(Fetchers, SYM) =>
                  lastTx'.result = "FetcherAlreadyExist" /\ UNCHANGED storage
            /\ ~contains_key(Fetchers, SYM) =>
                  lastTx'.result = "Ok" /\ contains_key(Fetchers', SYM)
            /\ (lastTx.call = "start_fetcher" /\ lastTx.result = "Ok") =>
                  lastTx'.result = "FetcherAlreadyExist" ]_vars

\* the second of two start_fetcher has just failed, the window of the first is there
C1_Witness ==
    /\ nTx = 2
    /\ lastTx.call = "start_fetcher"
    /\ lastTx.who = "b"
    /\ lastTx.result = "FetcherAlreadyExist"
    /\ contains_key(Fetchers, SYM)

\* C2: when submit_new_avg_price is executed right after a submit_new_avg_price
\* for the same symbol that closed the window, it fails with FetcherNotFound
\* and changes neither Fetchers, FetchedPrices nor AvgPrices.
C2_SecondCloseFails ==
    [][ ( /\ lastTx.call = "submit_new_avg_price"
          /\ lastTx.result = "Ok"
          /\ lastTx.old_fetcher # DefaultFetcher
          /\ Runs("submit_new_avg_price")
          /\ lastTx'.symbol = lastTx.symbol )
        => (lastTx'.result = "FetcherNotFound" /\ UNCHANGED storage) ]_vars

\* C3: a worker run of a signing node that finds the window of s due, with
\* prices p1..pn (n >= 1) collected, ends the call with a submit_new_avg_price
\* of floor(sum(pi)/n); and after submit_new_avg_price is executed for s,
\* neither the window nor the collection of s exists.
C3_AggregationCorrect ==
    [][ /\ WorkerStep =>
            \A s \in DOMAIN Fetchers :
                ( /\ can_sign(lastRun'.node)
                  /\ Due(Fetchers[s])
                  /\ Len(get_vec(FetchedPrices, s)) >= 1 )
                => /\ lastRun'.ended[s] = "Ok: avg"
                   /\ \A tx \in pool' \ pool :
                        /\ tx.call = "submit_new_avg_price"
                        /\ tx.symbol = s
                        /\ tx.price = FloorMean(get_vec(FetchedPrices, s))
        /\ (Runs("submit_new_avg_price") /\ lastTx'.result = "Ok") =>
            /\ ~contains_key(Fetchers', lastTx'.symbol)
            /\ ~contains_key(FetchedPrices', lastTx'.symbol) ]_vars

\* C4: across a step with the window of s there before and after, the
\* collection of s keeps its entries in place; it grows only by the entry of a
\* submit_new_price executed in the step, put at the end; a step that removes
\* the window removes the collection.
C4_AppendOnly ==
    [][ \A s \in Symbols :
        /\ (contains_key(Fetchers, s) /\ contains_key(Fetchers', s)) =>
            /\ IsPrefix(get_vec(FetchedPrices, s), get_vec(FetchedPrices', s))
            /\ get_vec(FetchedPrices', s) # get_vec(FetchedPrices, s) =>
                /\ Runs("submit_new_price")
                /\ get_vec(FetchedPrices', s) = Append(get_vec(FetchedPrices, s), Entry(lastTx'))
        /\ (contains_key(Fetchers, s) /\ ~contains_key(Fetchers', s)) =>
            ~contains_key(FetchedPrices', s) ]_vars

\* two entries are stored, in the order of their execution
C4_Witness ==
    /\ contains_key(Fetchers, SYM)
    /\ Len(get_vec(FetchedPrices, SYM)) = 2
    /\ get_vec(FetchedPrices, SYM)[1].price # get_vec(FetchedPrices, SYM)[2].price
    /\ lastTx.call = "submit_new_price"
    /\ get_vec(FetchedPrices, SYM)[2] = Entry(lastTx)

\* C5: a step removes the window of s only by executing submit_new_avg_price
\* for s, and that step writes AvgPrices[s] and removes the collection of s;
\* a step that executes submit_new_avg_price for s leaves AvgPrices[s] written
\* and neither the window nor the collection of s behind.
C5_AtomicClosePublish ==
    [][ \A s \in Symbols :
        /\ (contains_key(Fetchers, s) /\ ~contains_key(Fetchers', s)) =>
            /\ Runs("submit_new_avg_price")
            /\ lastTx'.symbol = s
            /\ lastTx'.result = "Ok"
        /\ (Runs("submit_new_avg_price") /\ lastTx'.symbol = s /\ lastTx'.result = "Ok") =>
            /\ contains_key(AvgPrices', s)
            /\ AvgPrices'[s] = <<now, lastTx'.price, lastTx'.who>>
            /\ ~contains_key(Fetchers', s)
            /\ ~contains_key(FetchedPrices', s) ]_vars

\* a window with a price collected has just been closed by a pooled
\* submit_new_avg_price, and its price is published
C5_Witness ==
    /\ lastTx.call = "submit_new_avg_price"
    /\ lastTx.result = "Ok"
    /\ lastTx.old_fetcher # DefaultFetcher
    /\ lastTx.price = 1
    /\ contains_key(AvgPrices, SYM)
    /\ AvgPrices[SYM][2] = 1
    /\ ~contains_key(Fetchers, SYM)

\* C6: a worker run of a signing node that finds the window of s due with no
\* price collected does not divide by zero: the call for s ends without a panic.
C6_EmptyAggregation ==
    [][ WorkerStep =>
            \A s \in DOMAIN Fetchers :
                ( /\ can_sign(lastRun'.node)
                  /\ Due(Fetchers[s])
                  /\ get_vec(FetchedPrices, s) = <<>> )
                => lastRun'.ended[s] # "panic: divide by zero" ]_vars

\* C7: submit_new_price executed while no window exists for the record's
\* symbol fails with FetcherNotFound, leaves Fetchers, FetchedPrices and
\* AvgPrices as they were and deposits no event.
C7_NoWindowRejected ==
    [][ (Runs("submit_new_price") /\ ~contains_key(Fetchers, lastTx'.symbol)) =>
            /\ lastTx'.result = "FetcherNotFound"
            /\ lastTx'.event = NoEvent
            /\ UNCHANGED storage ]_vars

\* a price for SYM was rejected after the window of SYM was aggregated
C7_Witness ==
    /\ lastTx.call = "submit_new_price"
    /\ lastTx.symbol = SYM
    /\ lastTx.result = "FetcherNotFound"
    /\ contains_key(AvgPrices, SYM)
    /\ ~contains_key(Fetchers, SYM)

\* C8: submit_new_price executed while the window of the record's symbol
\* exists succeeds and puts its entry, with the sender as author, at the end of
\* the collection; executed right after another successful one for the same
\* symbol, the collection ends with the two entries in the order of execution.
C8_BothObservationsKept ==
    [][ (Runs("submit_new_price") /\ contains_key(Fetchers, lastTx'.symbol)) =>
            LET s == lastTx'.symbol
                after == get_vec(FetchedPrices', s)
            IN  /\ lastTx'.result = "Ok"
                /\ after = Append(get_vec(FetchedPrices, s), Entry(lastTx'))
                /\ after[Len(after)].author = lastTx'.who
                /\ ( /\ lastTx.call = "submit_new_price"
                     /\ lastTx.result = "Ok"
                     /\ lastTx.symbol = s )
                   => /\ Len(after) >= 2
                      /\ after[Len(after) - 1] = Entry(lastTx)
                      /\ after[Len(after)] = Entry(lastTx') ]_vars

\* the prices of two reporters are stored, b's after a's
C8_Witness ==
    /\ contains_key(Fetchers, SYM)
    /\ Len(get_vec(FetchedPrices, SYM)) = 2
    /\ get_vec(FetchedPrices, SYM)[1].author = "a"
    /\ get_vec(FetchedPrices, SYM)[2].author = "b"
    /\ lastTx.call = "submit_new_price"
    /\ lastTx.who = "b"
    /\ lastTx.result = "Ok"

\* C10: AvgPrices[s] changes only in a step that executes submit_new_avg_price
\* for s while the window of s exists, and the entry written holds the time
\* of the step and the sender.
C10_AvgPriceOnlyByAggregation ==
    [][ \A s \in Symbols :
        ( \/ contains_key(AvgPrices, s) # contains_key(AvgPrices', s)
          \/ /\ contains_key(AvgPrices, s)
             /\ contains_key(AvgPrices', s)
             /\ AvgPrices[s] # AvgPrices'[s] )
        => /\ Runs("submit_new_avg_price")
           /\ lastTx'.symbol = s
           /\ lastTx'.result = "Ok"
           /\ contains_key(Fetchers, s)
           /\ AvgPrices'[s] = <<now, lastTx'.price, lastTx'.who>> ]_vars

LastHeight == GracePeriod + FIXED_WINDOW_LENGTH

\* C9: with node "a" running its worker, the pool accepting and including
\* its transactions and blocks being imported, every window whose end is
\* reached at the heights of the model is eventually removed.
C9_WindowEventuallyClosed ==
    (contains_key(Fetchers, SYM) /\ Fetchers[SYM].end_fetching_at <= LastHeight)
        ~> ~contains_key(Fetchers, SYM)

\* the windows the worker itself cannot aggregate: the end is reached and the
\* collection is empty, or its sum or the count of its samples overflows the mantissa
Stuck ==
    /\ contains_key(Fetchers, SYM)
    /\ Due(Fetchers[SYM])
    /\ LET price_points == get_vec(FetchedPrices, SYM)
       IN  \/ price_points = <<>>
           \/ SumOfPrices(price_points) >= Capacity
           \/ Len(price_points) * One >= Capacity

\* every other window is eventually removed
ClosedUnlessStuck ==
    (contains_key(Fetchers, SYM) /\ Fetchers[SYM].end_fetching_at <= LastHeight)
        ~> (~contains_key(Fetchers, SYM) \/ Stuck)

\* C11: a start_fetcher that succeeds at block t stores under SYM a fetcher
\* with symbol SYM, end_fetching_at = t + 600 and the URL that SYMBOLS gives
\* for SYM; it leaves every other key of Fetchers, FetchedPrices and AvgPrices
\* as they were.
C11_OpenComputesDeadline ==
    [][ (Runs("start_fetcher") /\ lastTx'.result = "Ok") =>
            /\ DOMAIN Fetchers' = DOMAIN Fetchers \cup {SYM}
            /\ Fetchers'[SYM].symbol = SYM
            /\ Fetchers'[SYM].end_fetching_at = block_number + 600
            /\ <<SYM, Fetchers'[SYM].url>> \in SYMBOLS
            /\ \A s \in DOMAIN Fetchers : s # SYM => Fetchers'[s] = Fetchers[s]
            /\ UNCHANGED <<FetchedPrices, AvgPrices>> ]_vars

\* a window has just been opened at block 5, over observations and a price
\* left by an earlier window
C11_Witness ==
    /\ lastTx.call = "start_fetcher"
    /\ lastTx.result = "Ok"
    /\ block_number = 5
    /\ Fetchers[SYM].end_fetching_at = 605
    /\ Fetchers[SYM].url = "https://api.diadata.org/v1/quotation/ETH"
    /\ SYM \in DOMAIN AvgPrices

\* the ways calc_and_submit_avg_price and fetch_price_and_submit end
AggregateEnds == {"Ok: avg", "Err: no local accounts"} \cup PanicEnds

FetchEnds == {"Ok: price", "Err: failed to fetch data", "Err: no local accounts"}

\* C12: a run of the worker at block t does, for every fetcher in storage,
\* one thing at most: when t >= end_fetching_at it aggregates, makes no
\* request to the price source and sends no observation; otherwise, when t is
\* a multiple of the grace period, it fetches and sends no average; otherwise
\* it does nothing. So no run sends both an average and an observation for
\* one fetcher, and a due fetcher is aggregated also at a multiple of the
\* grace period.
C12_SchedulerDecision ==
    [][ WorkerStep =>
          \A s \in DOMAIN Fetchers :
            LET t == block_number
                due == t >= Fetchers[s].end_fetching_at
                new == {tx \in pool' \ pool : tx.symbol = s}
            IN  /\ due =>
                      /\ lastRun'.ended[s] \in AggregateEnds
                      /\ lastRun'.fetch[s] = "not called"
                      /\ \A tx \in new : tx.call = "submit_new_avg_price"
                /\ (~due /\ t % GracePeriod = 0) =>
                      /\ lastRun'.ended[s] \in FetchEnds
                      /\ \A tx \in new : tx.call = "submit_new_price"
                /\ (~due /\ t % GracePeriod # 0) =>
                      /\ lastRun'.ended[s] = "nothing"
                      /\ lastRun'.fetch[s] = "not called"
                      /\ new = {}
                /\ ~(/\ \E tx \in new : tx.call = "submit_new_avg_price"
                     /\ \E tx \in new : tx.call = "submit_new_price") ]_vars

\* at block 605, a multiple of the grace period and the deadline of the window
\* opened at block 5, the worker of a has aggregated and sent the average
C12_Witness ==
    /\ block_number = 605
    /\ block_number % GracePeriod = 0
    /\ lastRun.node = "a"
    /\ SYM \in DOMAIN Fetchers
    /\ Fetchers[SYM].end_fetching_at = 605
    /\ lastRun.ended[SYM] = "Ok: avg"
    /\ \E tx \in pool : tx.call = "submit_new_avg_price" /\ tx.who = "a"

\* the request was not sent, or no response came before the deadline, or the
\* status is not 200, or the body is not UTF-8, or it does not parse
Unusable(response) ==
    \/ ~response.sent
    \/ response.wait = "deadline"
    \/ response.code # 200
    \/ ~response.utf8
    \/ ~response.body.json

\* C13: when a run of the worker makes its request to the price source and
\* the request fails at any stage, the call for that fetcher ends with the
\* error "failed to fetch data", the run puts no transaction into the pool
\* and changes nothing in storage, and the run goes on to its end.
C13_FailedFetchWritesNothing ==
    [][ WorkerStep =>
          \A s \in DOMAIN Fetchers :
            (lastRun'.fetch[s] # "not called" /\ Unusable(lastRun'.response)) =>
                /\ lastRun'.ended[s] = "Err: failed to fetch data"
                /\ lastRun'.fetch[s] \in {"IoError", "DeadlineReached", "Unknown"}
                /\ {tx \in pool' \ pool : tx.symbol = s} = {}
                /\ \A e \in DOMAIN Fetchers : lastRun'.ended[e] \notin PanicEnds \cup {"not reached"}
                /\ UNCHANGED storage ]_vars

\* the worker of a, which holds a key, asked the price source at block 5 and
\* got a response with status 404
C13_Witness ==
    /\ block_number = 5
    /\ lastRun.node = "a"
    /\ SYM \in DOMAIN Fetchers
    /\ lastRun.fetch[SYM] = "Unknown"
    /\ lastRun.response.sent
    /\ lastRun.response.code = 404
    /\ lastRun.ended[SYM] = "Err: failed to fetch data"

\* C14: a run of the worker of a node that holds no key ends, for every
\* fetcher that is due or that it would fetch for, with the error "no local
\* accounts", without a request to the price source; it puts no transaction
\* into the pool and leaves storage and the pool as they were.
C14_NoKeyNoAction ==
    [][ (WorkerStep /\ LocalKeys(lastRun'.node) = {}) =>
          /\ \A s \in DOMAIN Fetchers :
                /\ lastRun'.fetch[s] = "not called"
                /\ (Due(Fetchers[s]) \/ block_number % GracePeriod = 0) =>
                        lastRun'.ended[s] = "Err: no local accounts"
          /\ pool' = pool
          /\ UNCHANGED storage ]_vars

\* node c, which holds no key, has run its worker at block 5 on a window that
\* is not due
C14_Witness ==
    /\ block_number = 5
    /\ lastRun.node = "c"
    /\ LocalKeys("c") = {}
    /\ SYM \in DOMAIN Fetchers
    /\ ~Due(Fetchers[SYM])
    /\ lastRun.ended[SYM] = "Err: no local accounts"

WrappedMean(price_points) ==
    (SumOfPrices(price_points) % Capacity) \div Len(price_points)

\* C16: when the worker of a node that holds a key aggregates a collection
\* whose prices add up to more than the mantissa holds, the addition neither
\* panics nor wraps: the call for the fetcher does not end in a panic, and no
\* average it sends is the mean of the sum taken modulo the capacity.
C16_SumDoesNotWrap ==
    [][ (WorkerStep /\ LocalKeys(lastRun'.node) # {}) =>
          \A s \in DOMAIN Fetchers :
            LET price_points == get_vec(FetchedPrices, s)
            IN  (/\ Due(Fetchers[s])
                 /\ price_points # <<>>
                 /\ SumOfPrices(price_points) >= Capacity) =>
                    /\ lastRun'.ended[s] \notin PanicEnds
                    /\ \A tx \in pool' \ pool :
                          (tx.call = "submit_new_avg_price" /\ tx.symbol = s) =>
                              tx.price # WrappedMean(price_points) ]_vars

\* the price of the response times the unit of Price is more than the
\* mantissa holds
TooLarge(response) ==
    (response.body.Price[1] * One) \div response.body.Price[2] >= Capacity

\* C17: when the price source answers with a record whose price, scaled to
\* the unit of Price, is more than the mantissa holds, the conversion fails
\* and with it the fetch: the run puts no observation into the pool, neither
\* one with the largest mantissa nor one with a wrapped mantissa.
C17_ScaleOverflowFails ==
    [][ WorkerStep =>
          \A s \in DOMAIN Fetchers :
            (/\ lastRun'.fetch[s] # "not called"
             /\ ~Unusable(lastRun'.response)
             /\ TooLarge(lastRun'.response)) =>
                \A tx \in pool' \ pool : tx.call # "submit_new_price" ]_vars

\* C18: a fetcher leaves Fetchers only in the execution of a
\* submit_new_avg_price for its symbol, at a block t >= end_fetching_at;
\* whatever signed start_fetcher, submit_new_price and submit_new_avg_price
\* are executed, no fetcher is removed before its deadline.
C18_NoEarlyClose ==
    [][ \A s \in DOMAIN Fetchers :
          s \notin DOMAIN Fetchers' =>
            /\ Runs("submit_new_avg_price")
            /\ lastTx'.symbol = s
            /\ block_number >= Fetchers[s].end_fetching_at ]_vars

\* the step executes a submit_new_avg_price that a worker had put into the pool
RunsPooledAvg ==
    /\ \E tx \in pool : tx.call = "submit_new_avg_price" /\ pool' = pool \ {tx}
    /\ lastTx'.call = "submit_new_avg_price"
    /\ lastTx'.result = "Ok"

\* C19: when a submit_new_avg_price sent by a worker is executed and removes
\* a collection that is not empty, the price it writes to AvgPrices is the
\* floor of the mean of the prices that are in the collection at that moment,
\* so a price that was appended after the worker computed the average is
\* counted. (Averages computed from a wrapped sum, the case of C16, are left
\* aside.)
C19_PublishedPriceMatchesClosed ==
    [][ RunsPooledAvg =>
          LET s == lastTx'.symbol
              price_points == get_vec(FetchedPrices, s)
          IN  (/\ s \in DOMAIN Fetchers
               /\ price_points # <<>>
               /\ lastTx'.price # WrappedMean(price_points)) =>
                    AvgPrices'[s][2] = FloorMean(price_points) ]_vars

\* C20: in every reachable state, a symbol with prices stored in
\* FetchedPrices has a fetcher in Fetchers, and every price stored under a
\* symbol carries that symbol.
C20_ObservationsUnderOpenWindow ==
    \A s \in DOMAIN FetchedPrices :
        FetchedPrices[s] # <<>> =>
            /\ s \in DOMAIN Fetchers
            /\ \A i \in 1..Len(FetchedPrices[s]) : FetchedPrices[s][i].symbol = s

\* a price is stored for SYM, whose window is open, and a submit_new_price
\* for BTC, which has no window, has just been refused
C20_Witness ==
    /\ SYM \in DOMAIN Fetchers
    /\ Len(get_vec(FetchedPrices, SYM)) >= 1
    /\ lastTx.call = "submit_new_price"
    /\ lastTx.symbol = "BTC"
    /\ lastTx.result = "FetcherNotFound"

====
